---- MODULE Spec2Model ----
(***************************************************************************)
(* A model of src/app.py: the Streamlit script that fetches a B3 equity    *)
(* and the DI1F26 future, computes percentage changes and the annualised   *)
(* volatility, runs a zero-drift Monte Carlo simulation, estimates the     *)
(* probability of reaching two targets and comments on the DIF26.          *)
(*                                                                         *)
(* Numbers.  A float is a record.  "Linear" floats [t, v, np] are fixed    *)
(* point: the value is v / Scale, t is "num", "nan" or "inf" (v = +1/-1),  *)
(* and np says whether the scalar is a numpy float64 (division by zero     *)
(* gives inf/nan) or a Python float (division by zero raises).  Simulated  *)
(* prices are "log" floats [t, s, lg]: sign s and natural logarithm lg of  *)
(* the magnitude in units of 1 / LogScale, so that np.exp and the products *)
(* of np.cumprod keep float64's range: below MinLog a result underflows to *)
(* 0.0, above MaxLog it overflows to inf.                                  *)
(***************************************************************************)
EXTENDS Integers, Sequences, FiniteSets, TLC

\* ---------------------------------------------------------------- bounds
\* num_simulations (10000 in main) and days_30 (30 in main) scaled down, and
\* the largest simulation a direct call is given.
MaxSims == 2
MaxDays == 2
\* Dates are 1..MaxDate.
MaxDate == 3

\* ------------------------------------------------------------- constants
\* Prices are held in units of 0.01 (the step of the target inputs).
Scale == 100
\* Logarithms are held in units of 1/LogScale = 1/(2*Scale^2), the unit in
\* which 0.5 * volatility**2 * dt is a whole number.
LogScale == 2 * Scale * Scale
\* float64: exp(x) and a product round to 0.0 below 2^-1075 (ln = -745.133)
\* and to inf from 2^1024 (ln = 709.782) on.
MinLog == -(745133 * (LogScale \div 1000))
MaxLog == 709782 * (LogScale \div 1000)
\* The standard-normal draws np.random.normal is given to return.
DrawSet == {-1, 1}

\* -------------------------------------------------------- integer helpers
Abs(n) == IF n < 0 THEN -n ELSE n
Sign(n) == IF n < 0 THEN -1 ELSE IF n = 0 THEN 0 ELSE 1
\* Floor division for either sign of the divisor.
Div(a, b) == IF b > 0 THEN a \div b ELSE (-a) \div (-b)

RECURSIVE SqrtBetween(_, _, _)
SqrtBetween(n, lo, hi) ==
    IF lo >= hi THEN lo
    ELSE LET mid == (lo + hi + 1) \div 2
         IN  IF mid <= n \div mid THEN SqrtBetween(n, mid, hi)
             ELSE SqrtBetween(n, lo, mid - 1)
\* floor(sqrt(n)), n >= 0
ISqrt(n) == IF n <= 0 THEN 0 ELSE SqrtBetween(n, 1, n)

RECURSIVE SumSeq(_)
SumSeq(s) == IF s = <<>> THEN 0 ELSE Head(s) + SumSeq(Tail(s))

\* ---------------------------------------------------------- linear floats
Mk(t, v, np) == [t |-> t, v |-> v, np |-> np]
\* a numpy float64 of value v / Scale
Num(v) == Mk("num", v, TRUE)
\* a Python float of value v / Scale
Py(v) == Mk("num", v, FALSE)
NaN == Mk("nan", 0, TRUE)
\* a variable not assigned yet
None == Mk("none", 0, FALSE)
\* an exception raised in place of a value
Raise(name) == Mk(name, 0, FALSE)
\* what a Python float division by zero raises
Raised == Raise("ZeroDivisionError")

IsNum(x) == x.t = "num"
IsNaN(x) == x.t = "nan"
IsInf(x) == x.t = "inf"
IsRaised(x) == x.t \notin {"num", "nan", "inf", "none"}

\* a - b
FSub(a, b) ==
    LET np == a.np \/ b.np IN
    IF IsRaised(a) \/ IsRaised(b) THEN Raised
    ELSE IF IsNaN(a) \/ IsNaN(b) THEN Mk("nan", 0, np)
    ELSE IF IsInf(a) /\ IsInf(b)
         THEN IF a.v = b.v THEN Mk("nan", 0, np) ELSE Mk("inf", a.v, np)
    ELSE IF IsInf(a) THEN Mk("inf", a.v, np)
    ELSE IF IsInf(b) THEN Mk("inf", -b.v, np)
    ELSE Mk("num", a.v - b.v, np)

\* a / b: Python floats raise ZeroDivisionError on a zero divisor, a numpy
\* operand makes the division numpy's: x/0 is inf, 0/0 is nan.
FDiv(a, b) ==
    LET np == a.np \/ b.np IN
    IF IsRaised(a) \/ IsRaised(b) THEN Raised
    ELSE IF IsNum(b) /\ b.v = 0
         THEN IF ~np THEN Raised
              ELSE IF IsNaN(a) \/ (IsNum(a) /\ a.v = 0) THEN Mk("nan", 0, np)
              ELSE Mk("inf", Sign(a.v), np)
    ELSE IF IsNaN(a) \/ IsNaN(b) THEN Mk("nan", 0, np)
    ELSE IF IsInf(a) /\ IsInf(b) THEN Mk("nan", 0, np)
    ELSE IF IsInf(a) THEN Mk("inf", a.v * Sign(b.v), np)
    ELSE IF IsInf(b) THEN Mk("num", 0, np)
    ELSE Mk("num", Div(a.v * Scale, b.v), np)

\* a * b
FMul(a, b) ==
    LET np == a.np \/ b.np IN
    IF IsRaised(a) \/ IsRaised(b) THEN Raised
    ELSE IF IsNaN(a) \/ IsNaN(b) THEN Mk("nan", 0, np)
    ELSE IF IsInf(a) \/ IsInf(b)
         THEN IF (IsNum(a) /\ a.v = 0) \/ (IsNum(b) /\ b.v = 0)
              THEN Mk("nan", 0, np)
              ELSE Mk("inf", Sign(a.v) * Sign(b.v), np)
    ELSE Mk("num", Div(a.v * b.v, Scale), np)

\* a > 0 and a < 0 as Python evaluates them (False for nan)
FPositive(a) == (IsNum(a) /\ a.v > 0) \/ (IsInf(a) /\ a.v > 0)
FNegative(a) == (IsNum(a) /\ a.v < 0) \/ (IsInf(a) /\ a.v < 0)

\* ------------------------------------------------------------- log floats
LNum(s, lg) == [t |-> "num", s |-> s, lg |-> lg]
LZero == [t |-> "num", s |-> 0, lg |-> 0]
LInf(s) == [t |-> "inf", s |-> s, lg |-> 0]
LNaN == [t |-> "nan", s |-> 0, lg |-> 0]

\* ln(v / Scale) in units of 1/LogScale, for the prices of the model
Ln(v) ==
    CASE v = 1 -> -92103
      [] v = 10 -> -46052
      [] v = 11 -> -44146
      [] v = 12 -> -42405
      [] v = 100 -> 0

\* the float x, held as a log float
ToLog(x) ==
    IF IsNaN(x) THEN LNaN
    ELSE IF IsInf(x) THEN LInf(x.v)
    ELSE IF x.v = 0 THEN LZero
    ELSE LNum(Sign(x.v), Ln(Abs(x.v)))

\* a * b in float64: the product underflows to 0.0 and overflows to inf
LMul(a, b) ==
    IF a.t = "nan" \/ b.t = "nan" THEN LNaN
    ELSE IF (a.t = "inf" /\ b.s = 0) \/ (b.t = "inf" /\ a.s = 0) THEN LNaN
    ELSE IF a.t = "inf" \/ b.t = "inf" THEN LInf(a.s * b.s)
    ELSE IF a.s = 0 \/ b.s = 0 THEN LZero
    ELSE IF a.lg + b.lg < MinLog THEN LZero
    ELSE IF a.lg + b.lg > MaxLog THEN LInf(a.s * b.s)
    ELSE LNum(a.s * b.s, a.lg + b.lg)

\* The place of a log float in the order of the floats: its class, then its
\* logarithm (descending for the negative ones).
LClass(a) == IF a.t = "inf" THEN 2 * a.s ELSE a.s
LKey(a) == IF a.t = "num" THEN a.s * a.lg ELSE 0
\* a >= b (False when either is nan)
LGe(a, b) ==
    /\ a.t # "nan"
    /\ b.t # "nan"
    /\ \/ LClass(a) > LClass(b)
       \/ LClass(a) = LClass(b) /\ LKey(a) >= LKey(b)

\* ------------------------------------------------------------------ series
\* A price series (the Close column of a history frame, or the DIF26
\* series): a sequence of [date, close], strictly increasing in date, the
\* closing prices positive and in units of 1/Scale.
Close(data) == [i \in DOMAIN data |-> Num(data[i].close)]

\* ---------------------------------------------- calculate_percentage_change
Hundred == Py(100 * Scale)
calculate_percentage_change(current_price, target_price) ==
    FMul(FDiv(FSub(target_price, current_price), current_price), Hundred)

\* ----------------------------------------------------- calculate_volatility
\* Series.pct_change(): close[i] / close[i-1] - 1, the first entry nan
PctChange(close) ==
    [i \in DOMAIN close |->
        IF i = 1 THEN NaN ELSE FSub(FDiv(close[i], close[i - 1]), Num(Scale))]

\* Series.dropna()
DropNa(s) == SelectSeq(s, LAMBDA x : ~IsNaN(x))

\* Series.std(): the sample standard deviation (ddof = 1), nan for fewer
\* than two values
Std(s) ==
    LET n == Len(s)
        v == [i \in DOMAIN s |-> s[i].v]
        sq == [i \in DOMAIN s |-> s[i].v * s[i].v]
    IN  IF n < 2 THEN NaN
        ELSE IF \E i \in DOMAIN s : ~IsNum(s[i]) THEN NaN
        ELSE Num(ISqrt(Div(n * SumSeq(sq) - SumSeq(v) * SumSeq(v), n * (n - 1))))

\* returns.std() * np.sqrt(252).  The volatility is held in units of
\* sqrt(252)/Scale, in which the product has the digits of its first factor.
calculate_volatility(data) == Std(DropNa(PctChange(Close(data))))

\* --------------------------------------------------- monte_carlo_simulation
\* mu = 0
mu == 0
\* dt = 1/252
TradingDays == 252

\* the exponent with the draw not scaled by the volatility:
\* (mu - 0.5 * volatility**2) * dt + np.sqrt(dt) * z
ExponentUnscaledDraw(volatility, z) ==
    IF IsNum(volatility)
    THEN Mk("num", Div(mu * LogScale, TradingDays) - volatility.v * volatility.v
                   + Div(LogScale * z, 16), TRUE)
    ELSE NaN

\* (mu - 0.5 * volatility**2) * dt + volatility * np.sqrt(dt) * z, in units
\* of 1/LogScale: with the volatility v * sqrt(252) / Scale and dt = 1/252,
\* 0.5 * volatility**2 * dt is v*v / LogScale and volatility * sqrt(dt) is
\* v / Scale.
Exponent(volatility, z) ==
    IF IsNum(volatility)
    THEN Mk("num", Div(mu * LogScale, TradingDays) - volatility.v * volatility.v
                   + 2 * Scale * volatility.v * z, TRUE)
    ELSE NaN

\* np.exp in float64
FExp(x) ==
    IF IsNaN(x) THEN LNaN
    ELSE IF IsInf(x) THEN (IF x.v > 0 THEN LInf(1) ELSE LZero)
    ELSE IF x.v < MinLog THEN LZero
    ELSE IF x.v > MaxLog THEN LInf(1)
    ELSE LNum(1, x.v)

\* np.cumprod(row)[t]
RECURSIVE CumProd(_, _)
CumProd(row, t) == IF t = 1 THEN row[1] ELSE LMul(CumProd(row, t - 1), row[t])

\* The matrix monte_carlo_simulation returns for the draws Z that
\* np.random.normal(size=(num_simulations, days)) gave, or the ValueError
\* numpy raises for a negative dimension.
monte_carlo_simulation(current_price, volatility, days, num_simulations, Z) ==
    IF days < 0 \/ num_simulations < 0
    THEN [err |-> "ValueError", shape |-> <<0, 0>>, rows |-> <<>>]
    ELSE LET random_walks ==
                 [i \in 1..num_simulations |->
                     [t \in 1..days |-> FExp(Exponent(volatility, Z[i][t]))]]
             price_paths ==
                 [i \in 1..num_simulations |->
                     [t \in 1..days |->
                         LMul(ToLog(current_price), CumProd(random_walks[i], t))]]
         IN  [err |-> "none", shape |-> <<num_simulations, days>>,
              rows |-> price_paths]

\* The draws of one call
Draws(days, num_simulations) ==
    [1..num_simulations -> [1..days -> DrawSet]]

\* the probabilities with <= in place of >=
TargetProbabilityBelow(mc_simulations, target_price) ==
    LET n == mc_simulations.shape[1]
        d == mc_simulations.shape[2]
        hit == {i \in 1..n : LGe(ToLog(target_price), mc_simulations.rows[i][d])}
    IN  IF d = 0 THEN Raise("IndexError")
        ELSE IF n = 0 THEN NaN
        ELSE Num(Div(Cardinality(hit) * Scale, n))

\* np.mean(mc_simulations[:, -1] >= target_price): the IndexError of a matrix
\* with no column, nan (the mean of nothing) for a matrix with no row
TargetProbability(mc_simulations, target_price) ==
    LET n == mc_simulations.shape[1]
        d == mc_simulations.shape[2]
        hit == {i \in 1..n : LGe(mc_simulations.rows[i][d], ToLog(target_price))}
    IN  IF d = 0 THEN Raise("IndexError")
        ELSE IF n = 0 THEN NaN
        ELSE Num(Div(Cardinality(hit) * Scale, n))

\* ---------------------------------------------------- analyze_dif26_impact
\* pd.concat([stock_data['Close'], dif26_data], axis=1).dropna(): the rows
\* of the dates both series have
Aligned(stock_data, dif26_data) ==
    LET shared == SelectSeq(stock_data,
                    LAMBDA r : \E j \in DOMAIN dif26_data : dif26_data[j].date = r.date)
    IN  [i \in DOMAIN shared |->
            [x |-> shared[i].close,
             y |-> dif26_data[CHOOSE j \in DOMAIN dif26_data :
                                  dif26_data[j].date = shared[i].date].close]]

\* Series.corr: Pearson's coefficient c / sqrt(vx * vy), held as its three
\* terms; nan when a variance is 0 (one row, or a constant column)
Correlation(aligned) ==
    LET n == Len(aligned)
        sx == SumSeq([i \in DOMAIN aligned |-> aligned[i].x])
        sy == SumSeq([i \in DOMAIN aligned |-> aligned[i].y])
        sxy == SumSeq([i \in DOMAIN aligned |-> aligned[i].x * aligned[i].y])
        sxx == SumSeq([i \in DOMAIN aligned |-> aligned[i].x * aligned[i].x])
        syy == SumSeq([i \in DOMAIN aligned |-> aligned[i].y * aligned[i].y])
        c == n * sxy - sx * sy
        vx == n * sxx - sx * sx
        vy == n * syy - sy * sy
    IN  IF vx = 0 \/ vy = 0 THEN [t |-> "nan", c |-> 0, vx |-> 0, vy |-> 0]
        ELSE [t |-> "num", c |-> c, vx |-> vx, vy |-> vy]

\* correlation < -0.5
BelowMinusHalf(r) == r.t = "num" /\ r.c < 0 /\ 4 * r.c * r.c > r.vx * r.vy
\* correlation > 0.5
AboveHalf(r) == r.t = "num" /\ r.c > 0 /\ 4 * r.c * r.c > r.vx * r.vy

\* dif26_data.iloc[-1] - dif26_data.iloc[0] if len(dif26_data) > 1 else 0
Dif26Trend(dif26_data) ==
    IF Len(dif26_data) > 1
    THEN FSub(Num(dif26_data[Len(dif26_data)].close), Num(dif26_data[1].close))
    ELSE Py(0)

\* The text returned, as the names of its sentences:
\*   "insufficient"  Não há dados suficientes para analisar a correlação ...
\*   "corr_negative" Há uma forte correlação negativa ...
\*   "corr_positive" Há uma forte correlação positiva ...
\*   "corr_none"     Não há uma correlação forte ...
\*   "trend_up"      O DIF26 está em tendência de alta ...
\*   "trend_down"    O DIF26 está em tendência de baixa ...
\*   "trend_flat"    O DIF26 não mostra uma tendência clara ...
\* the thresholds taken as inclusive: <= -0.5 and >= 0.5
CorrelationSentenceInclusive(correlation) ==
    IF correlation.t = "num" /\ correlation.c < 0
       /\ 4 * correlation.c * correlation.c >= correlation.vx * correlation.vy
    THEN "corr_negative"
    ELSE IF correlation.t = "num" /\ correlation.c > 0
            /\ 4 * correlation.c * correlation.c >= correlation.vx * correlation.vy
    THEN "corr_positive"
    ELSE "corr_none"

CorrelationSentence(correlation) ==
    IF BelowMinusHalf(correlation) THEN "corr_negative"
    ELSE IF AboveHalf(correlation) THEN "corr_positive"
    ELSE "corr_none"

TrendSentence(dif26_trend) ==
    IF FPositive(dif26_trend) THEN "trend_up"
    ELSE IF FNegative(dif26_trend) THEN "trend_down"
    ELSE "trend_flat"

\* the analysis without its test for an empty aligned frame
analyze_dif26_impact_unchecked(stock_data, dif26_data) ==
    <<CorrelationSentence(Correlation(Aligned(stock_data, dif26_data))),
      TrendSentence(Dif26Trend(dif26_data))>>

analyze_dif26_impact(stock_data, dif26_data) ==
    LET aligned_data == Aligned(stock_data, dif26_data)
    IN  IF aligned_data = <<>> THEN <<"insufficient">>
        ELSE <<CorrelationSentence(Correlation(aligned_data)),
               TrendSentence(Dif26Trend(dif26_data))>>

\* the matrix before the simulation has run
NoMatrix == [err |-> "none", shape |-> <<0, 0>>, rows |-> <<>>]

\* ------------------------------------------------------------------ inputs
\* the text typed into the ticker field
TickerInputs == {"", "petr4", "PETR4", "PETR4.SA"}
\* str.upper()
Upper(s) == IF s = "petr4" THEN "PETR4" ELSE s
\* ticker.endswith('.SA')
EndsWithSA(s) == s = "PETR4.SA"
\* ticker += '.SA'
PlusSA(s) == IF s = "PETR4" THEN "PETR4.SA" ELSE s

\* st.number_input(min_value=0.01, step=0.01): Python floats from 0.01 up
TargetInputs == {Py(1), Py(10), Py(12)}

\* the series with the closing prices c on the dates d
Ser(d, c) == [i \in DOMAIN d |-> [date |-> d[i], close |-> c[i]]]

\* What the market data provider answers for the equity (the empty frame
\* included) ...
StockResponses ==
    { <<>>,
      Ser(<<1>>, <<10>>),
      Ser(<<1, 2>>, <<10, 11>>),
      Ser(<<1, 2, 3>>, <<10, 11, 10>>),
      Ser(<<1, 2, 3>>, <<10, 10, 10>>),
      Ser(<<1, 2, 3>>, <<1, 100, 1>>) }
\* ... and for DI1F26.SA
Dif26Responses ==
    { <<>>,
      Ser(<<2>>, <<11>>),
      Ser(<<2, 3>>, <<11, 11>>),
      Ser(<<1, 2, 3>>, <<10, 11, 12>>),
      Ser(<<1, 2, 3>>, <<12, 11, 10>>) }

\* every series on the dates 1..MaxDate with closing prices 0.10 .. 0.12
RECURSIVE SeriesFrom(_)
SeriesFrom(d) ==
    IF d > MaxDate THEN { <<>> }
    ELSE LET rest == SeriesFrom(d + 1)
         IN  rest \cup { <<[date |-> d, close |-> c]>> \o r :
                            c \in {10, 11, 12}, r \in rest }
AllSeries == SeriesFrom(1)

\* ------------------------------------------------------------------- state
VARIABLES
    pc,                \* the statement of main to run next
    ticker,            \* main's locals, in the order assigned
    start_date,
    end_date,
    target_price_1,
    target_price_2,
    data,
    dif26_data,
    current_price,
    lowest_price,
    highest_price,
    changes,           \* change_to_target_1, _2, change_from_lowest, change_to_highest
    volatility,
    days_30,
    num_simulations,
    mc_simulations,
    prob_mc_target_1,
    prob_mc_target_2,
    dif26_analysis,
    error,             \* the exception raised inside the try block, or "none"
    output,            \* what st.* has put on the page
    fetched,           \* what the provider was asked, and what it answered
    steps              \* the statements run so far

inputs == <<ticker, start_date, end_date, target_price_1, target_price_2>>
frames == <<data, dif26_data>>
prices == <<current_price, lowest_price, highest_price>>
simargs == <<days_30, num_simulations>>
probs == <<prob_mc_target_1, prob_mc_target_2>>
vars == <<pc, inputs, frames, prices, changes, volatility, simargs,
          mc_simulations, probs, dif26_analysis, error, output, fetched, steps>>

\* The locals no statement has assigned
Unassigned ==
    /\ data = <<>>
    /\ dif26_data = <<>>
    /\ current_price = None
    /\ lowest_price = None
    /\ highest_price = None
    /\ changes = <<>>
    /\ volatility = None
    /\ days_30 = 0
    /\ num_simulations = 0
    /\ mc_simulations = NoMatrix
    /\ prob_mc_target_1 = None
    /\ prob_mc_target_2 = None
    /\ dif26_analysis = <<>>
    /\ error = "none"
    /\ output = <<>>
    /\ fetched = <<>>
    /\ steps = <<>>

\* main is entered with what the widgets hold
Init ==
    /\ pc = "start"
    /\ ticker \in TickerInputs
    /\ start_date \in {1, MaxDate + 1}
    /\ end_date = MaxDate + 1
    /\ target_price_1 \in TargetInputs
    /\ target_price_2 \in TargetInputs
    /\ Unassigned

\* the except clause is entered with the exception e
RaiseTo(e, step) ==
    /\ error' = e
    /\ pc' = "except"
    /\ steps' = Append(steps, step)

\* ----------------------------------------------------------------- actions
\* lines 76-88: the title, the widgets and the guard of the analysis
Start ==
    /\ pc = "start"
    /\ ticker' = Upper(ticker)
    /\ output' = Append(output, "title")
    /\ steps' = Append(steps, "start")
    /\ pc' = IF Upper(ticker) # "" /\ target_price_1.v # 0 /\ target_price_2.v # 0
                /\ start_date < end_date
             THEN "fetch_stock" ELSE "done"
    /\ UNCHANGED <<start_date, end_date, target_price_1, target_price_2, frames,
                   prices, changes, volatility, simargs, mc_simulations, probs,
                   dif26_analysis, error, fetched>>

\* get_stock_data without its test for an empty frame
EmptyFrameIgnored(frame) == FALSE

\* line 18: data.empty
EmptyFrame(frame) == frame = <<>>

\* line 90, get_stock_data: the symbol gets its .SA suffix, the provider
\* answers with a frame or fails, and an empty frame raises ValueError
get_stock_data ==
    /\ pc = "fetch_stock"
    /\ LET symbol == IF EndsWithSA(Upper(ticker)) THEN Upper(ticker)
                     ELSE PlusSA(Upper(ticker))
       IN  \/ /\ fetched' = Append(fetched, [symbol |-> symbol, answer |-> "raise",
                                             frame |-> <<>>])
              /\ RaiseTo("ProviderError", "get_stock_data")
              /\ UNCHANGED data
           \/ \E frame \in StockResponses :
                /\ fetched' = Append(fetched, [symbol |-> symbol, answer |-> "frame",
                                               frame |-> frame])
                /\ IF EmptyFrame(frame)
                   THEN RaiseTo("ValueError", "get_stock_data") /\ UNCHANGED data
                   ELSE /\ data' = frame
                        /\ pc' = "fetch_dif26"
                        /\ steps' = Append(steps, "get_stock_data")
                        /\ UNCHANGED error
    /\ UNCHANGED <<inputs, dif26_data, prices, changes, volatility, simargs,
                   mc_simulations, probs, dif26_analysis, output>>

\* line 91, get_dif26_data: the Close column of whatever the provider
\* answers, empty or not (the frames of the model hold no missing price for
\* dropna to remove)
get_dif26_data ==
    /\ pc = "fetch_dif26"
    /\ \/ /\ fetched' = Append(fetched, [symbol |-> "DI1F26.SA", answer |-> "raise",
                                         frame |-> <<>>])
          /\ RaiseTo("ProviderError", "get_dif26_data")
          /\ UNCHANGED dif26_data
       \/ \E frame \in Dif26Responses :
            /\ fetched' = Append(fetched, [symbol |-> "DI1F26.SA", answer |-> "frame",
                                           frame |-> frame])
            /\ dif26_data' = frame
            /\ pc' = "prices"
            /\ steps' = Append(steps, "get_dif26_data")
            /\ UNCHANGED error
    /\ UNCHANGED <<inputs, data, prices, changes, volatility, simargs,
                   mc_simulations, probs, dif26_analysis, output>>

\* lines 93-101: the check for an empty frame, then the last, the lowest and
\* the highest closing price
Prices ==
    /\ pc = "prices"
    /\ steps' = Append(steps, "prices")
    /\ IF data = <<>>
       THEN /\ output' = Append(output, "error_empty")
            /\ pc' = "done"
            /\ UNCHANGED prices
       ELSE LET close == {data[i].close : i \in DOMAIN data}
            IN  /\ current_price' = Num(data[Len(data)].close)
                /\ lowest_price' = Num(CHOOSE c \in close : \A o \in close : c <= o)
                /\ highest_price' = Num(CHOOSE c \in close : \A o \in close : c >= o)
                /\ output' = Append(output, "price")
                /\ pc' = "changes"
    /\ UNCHANGED <<inputs, frames, changes, volatility, simargs, mc_simulations,
                   probs, dif26_analysis, error, fetched>>

\* lines 103-106: the four percentage changes
Changes ==
    /\ pc = "changes"
    /\ LET c == << calculate_percentage_change(current_price, target_price_1),
                   calculate_percentage_change(current_price, target_price_2),
                   calculate_percentage_change(lowest_price, current_price),
                   calculate_percentage_change(current_price, highest_price) >>
       IN  IF \E i \in 1..4 : IsRaised(c[i])
           THEN RaiseTo("ZeroDivisionError", "changes") /\ UNCHANGED changes
           ELSE /\ changes' = c
                /\ pc' = "volatility"
                /\ steps' = Append(steps, "changes")
                /\ UNCHANGED error
    /\ UNCHANGED <<inputs, frames, prices, volatility, simargs, mc_simulations,
                   probs, dif26_analysis, output, fetched>>

\* line 108
Volatility ==
    /\ pc = "volatility"
    /\ volatility' = calculate_volatility(data)
    /\ pc' = "setup"
    /\ steps' = Append(steps, "volatility")
    /\ UNCHANGED <<inputs, frames, prices, changes, simargs, mc_simulations,
                   probs, dif26_analysis, error, output, fetched>>

\* lines 111-112: days_30 = 30 and num_simulations = 10000, scaled to the
\* bounds of the model
SetupSimulation ==
    /\ pc = "setup"
    /\ days_30' = MaxDays
    /\ num_simulations' = MaxSims
    /\ pc' = "simulate"
    /\ steps' = Append(steps, "setup")
    /\ UNCHANGED <<inputs, frames, prices, changes, volatility, mc_simulations,
                   probs, dif26_analysis, error, output, fetched>>

\* line 113: the simulation, for any draws of np.random.normal
Simulate ==
    /\ pc = "simulate"
    /\ \E Z \in Draws(days_30, num_simulations) :
         LET r == monte_carlo_simulation(current_price, volatility, days_30,
                                         num_simulations, Z)
         IN  IF r.err # "none"
             THEN RaiseTo(r.err, "simulate") /\ UNCHANGED mc_simulations
             ELSE /\ mc_simulations' = r
                  /\ pc' = "probabilities"
                  /\ steps' = Append(steps, "simulate")
                  /\ UNCHANGED error
    /\ UNCHANGED <<inputs, frames, prices, changes, volatility, simargs, probs,
                   dif26_analysis, output, fetched>>

\* lines 115-116: the share of final prices at or above each target
Probabilities ==
    /\ pc = "probabilities"
    /\ LET p1 == TargetProbability(mc_simulations, target_price_1)
           p2 == TargetProbability(mc_simulations, target_price_2)
       IN  IF IsRaised(p1) \/ IsRaised(p2)
           THEN RaiseTo("IndexError", "probabilities") /\ UNCHANGED probs
           ELSE /\ prob_mc_target_1' = p1
                /\ prob_mc_target_2' = p2
                /\ pc' = "report"
                /\ steps' = Append(steps, "probabilities")
                /\ UNCHANGED error
    /\ UNCHANGED <<inputs, frames, prices, changes, volatility, simargs,
                   mc_simulations, dif26_analysis, output, fetched>>

\* lines 119-122: the subheader and the three lines of results
Report ==
    /\ pc = "report"
    /\ output' = output \o <<"subheader_prob", "volatility", "prob_1", "prob_2">>
    /\ pc' = "analyze"
    /\ steps' = Append(steps, "report")
    /\ UNCHANGED <<inputs, frames, prices, changes, volatility, simargs,
                   mc_simulations, probs, dif26_analysis, error, fetched>>

\* lines 125-127
Analyze ==
    /\ pc = "analyze"
    /\ dif26_analysis' = analyze_dif26_impact(data, dif26_data)
    /\ output' = output \o <<"subheader_dif26", "analysis">>
    /\ pc' = "bar_chart"
    /\ steps' = Append(steps, "analyze")
    /\ UNCHANGED <<inputs, frames, prices, changes, volatility, simargs,
                   mc_simulations, probs, error, fetched>>

\* A chart: plotly builds it and st.plotly_chart shows it, or one of
\* them raises.
Chart(name, step, next) ==
    \E shown \in BOOLEAN :
        IF shown
        THEN /\ output' = Append(output, name)
             /\ pc' = next
             /\ steps' = Append(steps, step)
             /\ UNCHANGED error
        ELSE RaiseTo("RenderError", step) /\ UNCHANGED output

\* lines 130-152: the bar chart of the five prices
BarChart ==
    /\ pc = "bar_chart"
    /\ Chart("bar_chart", "bar_chart", "hist_chart")
    /\ UNCHANGED <<inputs, frames, prices, changes, volatility, simargs,
                   mc_simulations, probs, dif26_analysis, fetched>>

\* lines 155-178: the history, the first simulated paths and the DIF26
HistChart ==
    /\ pc = "hist_chart"
    /\ Chart("hist_chart", "hist_chart", "dif26_chart")
    /\ UNCHANGED <<inputs, frames, prices, changes, volatility, simargs,
                   mc_simulations, probs, dif26_analysis, fetched>>

\* lines 181-204: the chart of the DIF26, or the line saying there is none
Dif26Chart ==
    /\ pc = "dif26_chart"
    /\ IF dif26_data # <<>>
       THEN Chart("dif26_chart", "dif26_chart", "done")
       ELSE /\ output' = Append(output, "no_dif26")
            /\ pc' = "done"
            /\ steps' = Append(steps, "dif26_chart")
            /\ UNCHANGED error
    /\ UNCHANGED <<inputs, frames, prices, changes, volatility, simargs,
                   mc_simulations, probs, dif26_analysis, fetched>>

\* an except clause that reports the error and fetches again
ExceptAndRetry ==
    /\ pc = "except"
    /\ output' = Append(output, "error")
    /\ pc' = "fetch_stock"
    /\ steps' = Append(steps, "except")
    /\ UNCHANGED <<inputs, frames, prices, changes, volatility, simargs,
                   mc_simulations, probs, dif26_analysis, error, fetched>>

\* lines 206-207: the one except clause of main
Except ==
    /\ pc = "except"
    /\ output' = Append(output, "error")
    /\ pc' = "done"
    /\ steps' = Append(steps, "except")
    /\ UNCHANGED <<inputs, frames, prices, changes, volatility, simargs,
                   mc_simulations, probs, dif26_analysis, error, fetched>>

Next ==
    \/ Start
    \/ get_stock_data
    \/ get_dif26_data
    \/ Prices
    \/ Changes
    \/ Volatility
    \/ SetupSimulation
    \/ Simulate
    \/ Probabilities
    \/ Report
    \/ Analyze
    \/ BarChart
    \/ HistChart
    \/ Dif26Chart
    \/ Except

\* One run of main
Spec == Init /\ [][Next]_vars

\* ------------------------------------------- the functions called directly
\* What a direct call leaves as it is
Running(at) ==
    /\ pc = at
    /\ ticker = "PETR4"
    /\ start_date = 1
    /\ end_date = MaxDate + 1
    /\ changes = <<>>
    /\ mc_simulations = NoMatrix
    /\ prob_mc_target_1 = None
    /\ prob_mc_target_2 = None
    /\ dif26_analysis = <<>>
    /\ error = "none"
    /\ output = <<>>
    /\ fetched = <<>>
    /\ steps = <<>>

\* monte_carlo_simulation and the probabilities, from any arguments
InitMC ==
    /\ Running("simulate")
    /\ target_price_1 \in TargetInputs
    /\ target_price_2 \in TargetInputs
    /\ data = <<>>
    /\ dif26_data = <<>>
    /\ current_price \in {Num(-10), Num(0), Num(10)}
    /\ lowest_price = None
    /\ highest_price = None
    /\ volatility \in {NaN, Num(-30), Num(0), Num(30), Num(3000), Num(4000)}
    /\ days_30 \in -1..MaxDays
    /\ num_simulations \in -1..MaxSims

NextMC == Simulate \/ Probabilities

SpecMC == InitMC /\ [][NextMC]_vars

\* calculate_percentage_change, from any prices of either kind of float
PriceArgs == {Num(0), Num(10), Num(12), Py(0), Py(10), Py(12)}

InitPct ==
    /\ Running("changes")
    /\ target_price_1 \in TargetInputs
    /\ target_price_2 \in TargetInputs
    /\ data = <<>>
    /\ dif26_data = <<>>
    /\ current_price \in PriceArgs
    /\ lowest_price \in PriceArgs
    /\ highest_price \in PriceArgs
    /\ volatility = None
    /\ days_30 = 0
    /\ num_simulations = 0

NextPct == Changes

SpecPct == InitPct /\ [][NextPct]_vars

\* analyze_dif26_impact, from any two series
InitAn ==
    /\ Running("analyze")
    /\ target_price_1 = Py(10)
    /\ target_price_2 = Py(12)
    /\ data \in AllSeries
    /\ dif26_data \in AllSeries
    /\ current_price = None
    /\ lowest_price = None
    /\ highest_price = None
    /\ volatility = None
    /\ days_30 = 0
    /\ num_simulations = 0

NextAn == Analyze

SpecAn == InitAn /\ [][NextAn]_vars

\* ================================================================== claims
Ran(step) == \E i \in DOMAIN steps : steps[i] = step
Cells == {mc_simulations.rows[i][t] :
            i \in DOMAIN mc_simulations.rows, t \in 1..mc_simulations.shape[2]}
\* a simulated price is > 0
LPositive(a) == a.t # "nan" /\ a.s > 0
\* valid arguments of the simulation
ValidCall ==
    /\ FPositive(current_price)
    /\ IsNum(volatility) /\ volatility.v >= 0
    /\ days_30 > 0
    /\ num_simulations > 0
ShapeAsAsked ==
    /\ mc_simulations.err = "none"
    /\ mc_simulations.shape = <<num_simulations, days_30>>
    /\ Len(mc_simulations.rows) = num_simulations
    /\ \A i \in DOMAIN mc_simulations.rows : Len(mc_simulations.rows[i]) = days_30

\* C1: a simulation called with current_price > 0, volatility >= 0, days > 0
\* and num_simulations > 0 returns, for any draws, a matrix of shape
\* (num_simulations, days) whose every cell is strictly positive.
C1_PositiveMatrix ==
    (Ran("simulate") /\ ValidCall) =>
        /\ error = "none"
        /\ ShapeAsAsked
        /\ \A c \in Cells : LPositive(c)

\* C2: a simulation called with current_price <= 0, volatility < 0,
\* days <= 0 or num_simulations <= 0 fails with an error for the invalid
\* parameter and returns no matrix.
C2_InvalidParameterFails ==
    ( /\ Ran("simulate")
      /\ \/ ~FPositive(current_price)
         \/ FNegative(volatility)
         \/ days_30 <= 0
         \/ num_simulations <= 0 ) =>
        /\ error = "ValueError"
        /\ mc_simulations = NoMatrix

\* C3: calculate_percentage_change fails with a division-by-zero error
\* whenever its base price is 0, and returns no inf, nan or other value.
C3_ZeroBaseFails ==
    ( /\ Ran("changes")
      /\ \/ IsNum(current_price) /\ current_price.v = 0
         \/ IsNum(lowest_price) /\ lowest_price.v = 0 ) =>
        /\ error = "ZeroDivisionError"
        /\ changes = <<>>

\* C4: calculate_volatility fails with an error on a series of fewer than
\* two closing prices: it returns neither 0 nor nan, and no nan volatility
\* reaches the simulation.
C4_ShortSeriesFails ==
    (Ran("volatility") /\ Len(data) < 2) =>
        /\ error # "none"
        /\ volatility = None
        /\ ~Ran("simulate")

\* The provider answered the request for the equity, or for the DIF26, with
\* an empty frame.
StockAnswerEmpty ==
    Len(fetched) >= 1 /\ fetched[1].answer = "frame" /\ fetched[1].frame = <<>>
Dif26AnswerEmpty ==
    Len(fetched) >= 2 /\ fetched[2].answer = "frame" /\ fetched[2].frame = <<>>
OnlySteps(allowed) == \A i \in DOMAIN steps : steps[i] \in allowed

\* C5 as stated: whichever symbol the provider answers with an empty frame,
\* the fetch fails and no analysis step runs.
C5_EveryEmptyAnswerFails ==
    \A i \in DOMAIN fetched :
        (fetched[i].answer = "frame" /\ fetched[i].frame = <<>>) =>
            /\ error = "ValueError"
            /\ OnlySteps({"start", "get_stock_data", "get_dif26_data", "except"})

\* C5, amended: an empty answer for the equity makes get_stock_data fail
\* with ValueError before the DIF26 is requested and no analysis step runs;
\* an empty answer for the DIF26 is no error: get_dif26_data returns the
\* empty series, the analysis goes on, says there is not enough data and
\* ends with the line that there is no DIF26 to chart.
C5_EmptyEquityFails ==
    /\ StockAnswerEmpty =>
          /\ error = "ValueError"
          /\ data = <<>>
          /\ Len(fetched) = 1
          /\ OnlySteps({"start", "get_stock_data", "except"})
    /\ Dif26AnswerEmpty =>
          /\ Ran("get_dif26_data")
          /\ dif26_data = <<>>
          /\ error \in {"none", "RenderError"}
          /\ Ran("analyze") => dif26_analysis = <<"insufficient">>
          /\ (pc = "done" /\ error = "none") => output[Len(output)] = "no_dif26"
C5_Witness == StockAnswerEmpty /\ pc = "done"

\* C6: for one simulated matrix with at least one row each probability is
\* in [0, 1], and the probability of the higher target is not above the
\* probability of the lower one.
C6_ProbabilityMonotone ==
    (Ran("probabilities") /\ error = "none" /\ num_simulations >= 1) =>
        /\ IsNum(prob_mc_target_1) /\ prob_mc_target_1.v \in 0..Scale
        /\ IsNum(prob_mc_target_2) /\ prob_mc_target_2.v \in 0..Scale
        /\ target_price_1.v <= target_price_2.v =>
               prob_mc_target_2.v <= prob_mc_target_1.v
        /\ target_price_2.v <= target_price_1.v =>
               prob_mc_target_1.v <= prob_mc_target_2.v
C6_Witness ==
    /\ Ran("probabilities") /\ error = "none"
    /\ target_price_1.v < target_price_2.v
    /\ 0 < prob_mc_target_2.v
    /\ prob_mc_target_2.v < prob_mc_target_1.v

\* C7: with volatility 0 every step's factor is exactly 1 and every
\* simulated price equals current_price, whatever the draws.
C7_ZeroVolatility ==
    (Ran("simulate") /\ ValidCall /\ volatility.v = 0) =>
        /\ error = "none"
        /\ \A z \in DrawSet : FExp(Exponent(volatility, z)) = LNum(1, 0)
        /\ ShapeAsAsked
        /\ \A c \in Cells : c = ToLog(current_price)
C7_Witness ==
    /\ Ran("simulate") /\ ValidCall /\ volatility.v = 0
    /\ num_simulations = MaxSims /\ days_30 = MaxDays
    /\ Cells = {ToLog(current_price)}

\* the two series have a date in common
SharedDate ==
    \E i \in DOMAIN data, j \in DOMAIN dif26_data : data[i].date = dif26_data[j].date

\* C8: for two series with no date in common (an empty second series
\* included) the analysis returns the insufficient-data text, raises
\* nothing and gives no correlation or trend sentence.
C8_NoOverlapInsufficient ==
    (Ran("analyze") /\ ~SharedDate) =>
        /\ dif26_analysis = <<"insufficient">>
        /\ error = "none"
C8_Witness ==
    /\ Ran("analyze") /\ ~SharedDate
    /\ data # <<>> /\ dif26_data # <<>>

\* Pearson's coefficient of the rows the two series share, from the
\* pairwise differences: cov = sum over i < j of (xi - xj)(yi - yj), and
\* the same for the two variances.
Dates == 1..MaxDate
HasDate(series, d) == \E i \in DOMAIN series : series[i].date = d
CloseOn(series, d) == series[CHOOSE i \in DOMAIN series : series[i].date = d].close
\* the sum of F(d, e) over the shared dates d < e
SumOfPairs(F(_, _)) ==
    SumSeq([k \in 1..(MaxDate * MaxDate) |->
        LET d == ((k - 1) \div MaxDate) + 1
            e == ((k - 1) % MaxDate) + 1
        IN  IF /\ d < e
               /\ HasDate(data, d) /\ HasDate(dif26_data, d)
               /\ HasDate(data, e) /\ HasDate(dif26_data, e)
            THEN F(d, e) ELSE 0])
PairCov ==
    SumOfPairs(LAMBDA d, e : (CloseOn(data, d) - CloseOn(data, e))
                             * (CloseOn(dif26_data, d) - CloseOn(dif26_data, e)))
PairVarX ==
    SumOfPairs(LAMBDA d, e : (CloseOn(data, d) - CloseOn(data, e))
                             * (CloseOn(data, d) - CloseOn(data, e)))
PairVarY ==
    SumOfPairs(LAMBDA d, e : (CloseOn(dif26_data, d) - CloseOn(dif26_data, e))
                             * (CloseOn(dif26_data, d) - CloseOn(dif26_data, e)))
\* the coefficient is defined, and is below -0.5, above 0.5
Defined == PairVarX # 0 /\ PairVarY # 0
StrongNegative == Defined /\ PairCov < 0 /\ 4 * PairCov * PairCov > PairVarX * PairVarY
StrongPositive == Defined /\ PairCov > 0 /\ 4 * PairCov * PairCov > PairVarX * PairVarY
Dif26First == dif26_data[1].close
Dif26Last == dif26_data[Len(dif26_data)].close

\* C10: for series that share a date the analysis gives one correlation
\* sentence and one trend sentence: negative iff the coefficient is below
\* -0.5, positive iff above 0.5, none otherwise (at -0.5, at 0.5 and for an
\* undefined coefficient); up iff the DIF26 ends above its first value,
\* down iff below, flat iff equal or of at most one point.
C10_BandAndTrend ==
    (Ran("analyze") /\ SharedDate) =>
        /\ Len(dif26_analysis) = 2
        /\ dif26_analysis[1] \in {"corr_negative", "corr_positive", "corr_none"}
        /\ dif26_analysis[2] \in {"trend_up", "trend_down", "trend_flat"}
        /\ dif26_analysis[1] = "corr_negative" <=> StrongNegative
        /\ dif26_analysis[1] = "corr_positive" <=> StrongPositive
        /\ dif26_analysis[2] = "trend_up" <=> Dif26Last > Dif26First
        /\ dif26_analysis[2] = "trend_down" <=> Dif26Last < Dif26First
        /\ dif26_analysis[2] = "trend_flat" <=>
               (Dif26Last = Dif26First \/ Len(dif26_data) <= 1)
\* the coefficient is exactly 0.5 and the DIF26 rises
C10_Witness ==
    /\ Ran("analyze") /\ SharedDate
    /\ Defined /\ PairCov > 0 /\ 4 * PairCov * PairCov = PairVarX * PairVarY
    /\ dif26_analysis = <<"corr_none", "trend_up">>

Count(seq, x) == Cardinality({i \in DOMAIN seq : seq[i] = x})
C9_Inv ==
    /\ error # "none" => pc \in {"except", "done"}
    /\ (error # "none" /\ pc = "except") =>
           Count(output, "error") = 0 /\ Count(output, "error_empty") = 0
    /\ (error # "none" /\ pc = "done") =>
           /\ Count(output, "error") = 1 /\ Count(output, "error_empty") = 0
           /\ output[Len(output)] = "error"
           /\ steps[Len(steps)] = "except"
    /\ \A i, j \in DOMAIN steps : steps[i] = steps[j] => i = j
    /\ \A i, j \in DOMAIN fetched : fetched[i].symbol = fetched[j].symbol => i = j
C9_Step ==
    error # "none" =>
        /\ pc = "except" /\ pc' = "done"
        /\ steps' = Append(steps, "except")
        /\ output' = Append(output, "error")
        /\ UNCHANGED <<inputs, frames, prices, changes, volatility, simargs,
                       mc_simulations, probs, dif26_analysis, error, fetched>>

\* C9: an error raised by a step of main ends the analysis: once it is
\* raised the only statement that runs is the except clause, which reports
\* it once; no step runs twice, no symbol is fetched twice, and no other
\* local or output changes.
C9_ErrorIsTerminal == []C9_Inv /\ [][C9_Step]_vars
C9_Witness ==
    /\ pc = "done" /\ error = "RenderError"
    /\ Ran("hist_chart") /\ ~Ran("dif26_chart")
    /\ Count(output, "error") = 1
====
